---------------------------- MODULE Spec2Model ----------------------------
(***************************************************************************)
(* Triplet (BPR / WARP) recommendation notebooks: the negative sampler,    *)
(* the batcher, the siamese scoring model, the WARP weight and the epoch   *)
(* loop, modelled from the two sampling notebooks.                         *)
(*                                                                         *)
(*   variant = "warp"  : src/unnamed/part_001      (hinge loss, WARP)      *)
(*   variant = "plain" : src/triplet_pytorch.ipynb (sigmoid loss)          *)
(*   variant = "bpr"   : src/unnamed/part_000      (model cell, full_auc)  *)
(*                                                                         *)
(* Spec follows the training cell; SpecBatcher, SpecConstruct, SpecEval,   *)
(* SpecLoss and SpecScore follow batcher, the model cell, full_auc,        *)
(* TripletLoss and predict_score on their own.  SpecWeight follows         *)
(* warp_weight at the WARP notebook's own sizes, SpecRun the epochs of the *)
(* session whose output that notebook records.                             *)
(*                                                                         *)
(* Embedding entries and scores are integers: one unit stands for the      *)
(* margin 1.0 of the hinge loss and of violation_warp.                     *)
(***************************************************************************)
EXTENDS Integers, Sequences, FiniteSets, TLC

(***************************************************************************)
(* The universe of the model: the ids of the users and of the items (the   *)
(* rows and columns of train), and the coordinates of an embedding vector. *)
(***************************************************************************)
Users == {0, 1}
Items == {0, 1}
Dims == {1}

n_users == Cardinality(Users)     \* train.shape[0]
n_items == Cardinality(Items)     \* train.shape[1]
n_latent == Cardinality(Dims)

(***************************************************************************)
(* Bounds of the model.                                                    *)
(***************************************************************************)
MaxNnz == 2           \* nonzero entries of the training matrix
MaxMaxSamples == 2    \* largest max_samples the sampler is called with
MaxBatchSize == 2     \* largest batch_size
MaxEpochs == 2        \* epochs the training loop is followed for
MaxLen == 4           \* longest sequence handed to batcher on its own
MaxNets == 2          \* FactNet instances built in one kernel session
MaxCalls == 2         \* calls of full_auc that are followed
MaxItems == 5         \* largest n_items a TripletLoss is built with
MaxNsamp == 4         \* largest attempt count handed to the loss
MaxLatent == 2        \* largest n_latent predict_score is followed with

\* for epoch in range(num_epochs)
num_epochs == MaxEpochs

\* values an embedding entry takes, and the values init.uniform draws
EmbVals == {-1, 1}
InitVals == {-1, 1}

NoItem == -1          \* neg_item_ind before the first draw binds it

Min(a, b) == IF a < b THEN a ELSE b
Max(a, b) == IF a > b THEN a ELSE b

Range(s) == {s[j] : j \in 1 .. Len(s)}

RECURSIVE SumSeq(_)
SumSeq(s) == IF s = <<>> THEN 0 ELSE Head(s) + SumSeq(Tail(s))

(***************************************************************************)
(* The interaction matrix: train[u] is the set of the column indices of    *)
(* row u (csr_mat.indices[indptr[u]:indptr[u+1]]).                         *)
(***************************************************************************)
Matrices == {m \in [Users -> SUBSET Items] :
               Cardinality({p \in Users \X Items : p[2] \in m[p[1]]}) <= MaxNnz}

\* get_row_nz(csr_mat, col_ind): the column indices of one row
get_row_nz(csr_mat, row) == csr_mat[row]

\* interactions.nonzero(): the (row, column) pairs in row-major order
RECURSIVE nonzero_from(_, _)
nonzero_from(csr_mat, idx) ==
    IF idx >= n_users * n_items THEN <<>>
    ELSE LET u == idx \div n_items
             i == idx % n_items
         IN (IF i \in csr_mat[u] THEN << <<u, i>> >> ELSE <<>>)
                \o nonzero_from(csr_mat, idx + 1)

nonzero(csr_mat) == nonzero_from(csr_mat, 0)

\* np.arange(n)
arange(n) == [j \in 1 .. n |-> j - 1]

\* an indexing that reads the first index at every position
take_first(arr, ind) == [j \in 1 .. Len(ind) |-> arr[ind[1] + 1]]

\* arr[ind]: numpy integer-array indexing (0-based indices)
take(arr, ind) == [j \in 1 .. Len(ind) |-> arr[ind[j] + 1]]

Perms(n) == {f \in [1 .. n -> 1 .. n] : \A a, b \in 1 .. n : f[a] = f[b] => a = b}

(***************************************************************************)
(* batcher(iterable, batch_size): the chunks the generator yields.         *)
(***************************************************************************)
\* a batcher that drops a short last chunk
islice_len_short(remaining, size) == IF remaining < size THEN 0 ELSE size

\* itertools.islice(it, batch_size): how many items one chunk takes
islice_len(remaining, size) == Min(size, remaining)

RECURSIVE batcher(_, _)
batcher(iterable, size) ==
    LET n == islice_len(Len(iterable), size)
        chunk == SubSeq(iterable, 1, n)
    IN IF chunk = <<>> THEN <<>>
       ELSE <<chunk>> \o batcher(SubSeq(iterable, n + 1, Len(iterable)), size)

(***************************************************************************)
(* State.                                                                  *)
(***************************************************************************)
VARIABLES
    variant,            \* which notebook runs
    train,              \* the training interaction matrix
    max_samples,        \* sample_neg's attempt cap
    batch_size,
    user_emb,           \* net.user_embedding_layer.weight
    item_emb,           \* net.item_embedding_layer.weight
    grad,               \* rows of the two tables whose .grad may be nonzero
    pc,                 \* position in the epoch loop
    epoch,
    nnz_users,          \* row index of every nonzero entry
    nnz_items,          \* column index of every nonzero entry
    shuffle_ind,
    pos_scores,         \* sample_warp: scores of the positive pairs
    k,                  \* sample_warp / generator: position in nnz_users
    n_sampled,          \* sample_neg: draws made by the running call
    neg_item_ind,       \* sample_neg: the last candidate drawn
    returned,           \* plain notebook: tuples sample_neg has returned
    nid_preload,
    n_sampled_preload,
    uid_gen, pid_gen, nid_gen, n_samp_gen,      \* chunks still to be yielded
    uid_batch, pid_batch, nid_batch, nsamp_batch,
    pos_pred, neg_pred, \* what net(...) returned for the current batch
    loss,               \* "none", "finite" or "nonfinite"
    avg_nsamp,          \* <<sum, count>> of the epoch's attempt counts
    steps,              \* optimizer steps taken in this epoch
    calls,              \* history: sample_neg calls that returned in this epoch
    trace,              \* history: one record per sample_neg call of the pass
    b_in, b_size, b_out,\* batcher on its own: input, batch size, chunks
    net,                \* the module-level name net: 0 (unbound) or an instance
    instances,          \* every FactNet instance built so far, in order
    user_id,            \* full_auc: the row the for loop is at
    scores,             \* full_auc: the per-user AUCs appended so far
    aucs,               \* what the calls of full_auc have returned, in order
    crit,               \* the TripletLoss object: loss, warp_weighting, n_items
    call_args,          \* the arguments a method followed on its own is called with
    call_ret            \* what the method has returned

vars == <<variant, train, max_samples, batch_size, user_emb, item_emb, grad,
          pc, epoch, nnz_users, nnz_items, shuffle_ind, pos_scores, k,
          n_sampled, neg_item_ind, returned, nid_preload, n_sampled_preload,
          uid_gen, pid_gen, nid_gen, n_samp_gen,
          uid_batch, pid_batch, nid_batch, nsamp_batch,
          pos_pred, neg_pred, loss, avg_nsamp, steps, calls, trace,
          b_in, b_size, b_out, net, instances, user_id, scores, aucs,
          crit, call_args, call_ret>>

config_vars == <<variant, train, max_samples, batch_size, nnz_users, nnz_items>>
net_vars == <<user_emb, item_emb>>
sampler_vars == <<pos_scores, k, n_sampled, neg_item_ind, returned, trace>>
preload_vars == <<nid_preload, n_sampled_preload>>
gen_vars == <<uid_gen, pid_gen, nid_gen, n_samp_gen>>
batch_vars == <<uid_batch, pid_batch, nid_batch, nsamp_batch, pos_pred, neg_pred, loss>>
batcher_vars == <<b_in, b_size, b_out>>
ctor_vars == <<net, instances>>
\* the state of the cells that are followed on their own
eval_vars == <<user_id, scores, aucs>>
crit_vars == <<crit, call_args, call_ret>>
aside_vars == <<ctor_vars, eval_vars, crit_vars>>

\* no TripletLoss is being followed on its own
CritIdle ==
    /\ crit = [loss |-> "hinge", warp_weighting |-> FALSE, n_items |-> n_items]
    /\ call_args = <<>>
    /\ call_ret = <<>>

(***************************************************************************)
(* FactNet.                                                                *)
(***************************************************************************)
user_embedding_layer(ids) == [j \in 1 .. Len(ids) |-> user_emb[ids[j]]]
item_embedding_layer(ids) == [j \in 1 .. Len(ids) |-> item_emb[ids[j]]]

\* (a * b).sum(dim=1) for one row
RECURSIVE dot_from(_, _, _)
dot_from(a, b, d) == IF d > Len(a) THEN 0 ELSE a[d] * b[d] + dot_from(a, b, d + 1)

\* a product that is not summed: the first coordinate only
mul_sum_first(a, b) == [j \in 1 .. Len(a) |-> a[j][1] * b[j][1]]

\* (a * b).sum(dim=1) for a batch of rows
mul_sum(a, b) == [j \in 1 .. Len(a) |-> dot_from(a[j], b[j], 1)]

predict_score(uid, iid) ==
    LET user_embedding == user_embedding_layer(uid)
        item_embedding == item_embedding_layer(iid)
    IN mul_sum(user_embedding, item_embedding)

\* the negative item looked up with the positive ids
forward_pid_twice(uid, pid, nid) ==
    LET user_embedding == user_embedding_layer(uid)
        pos_item_embedding == item_embedding_layer(pid)
        neg_item_embedding == item_embedding_layer(pid)
    IN <<mul_sum(user_embedding, pos_item_embedding),
         mul_sum(user_embedding, neg_item_embedding)>>

forward(uid, pid, nid) ==
    LET user_embedding == user_embedding_layer(uid)
        pos_item_embedding == item_embedding_layer(pid)
        neg_item_embedding == item_embedding_layer(nid)
    IN <<mul_sum(user_embedding, pos_item_embedding),
         mul_sum(user_embedding, neg_item_embedding)>>

\* an embedding built with max_norm: a lookup renormalises, in place, the
\* rows it reads
weight_after_lookup_max_norm(weight, ids) ==
    [r \in DOMAIN weight |->
        IF r \in Range(ids) THEN [d \in Dims |-> Min(weight[r][d], 0)]
        ELSE weight[r]]

\* nn.Embedding(n, n_latent) called on ids: the weight after the lookup
weight_after_lookup(weight, ids) == weight

\* the two tables after predict_score(uid, iid) or forward(uid, pid, nid)
\* has looked up the users uid and the items iid
Lookup(uid, iid) ==
    /\ user_emb' = weight_after_lookup(user_emb, uid)
    /\ item_emb' = weight_after_lookup(item_emb, iid)

(***************************************************************************)
(* TripletLoss.                                                            *)
(***************************************************************************)
\* torch.floor((self.n_items-1)/nsamp): the argument of torch.log
log_arg(nsamp) == (n_items - 1) \div nsamp

\* warp_weight(nsamp) = log(log_arg) / log(n_items): finite iff log_arg >= 1
\* (torch.log(0) is -inf)
warp_weight_finite(nsamp) == log_arg(nsamp) >= 1

\* the status of criterion(pos_pred, neg_pred, nsamp_input)
criterion(v, nsamp) ==
    IF v = "warp" /\ \E j \in 1 .. Len(nsamp) : ~warp_weight_finite(nsamp[j])
    THEN "nonfinite" ELSE "finite"

(***************************************************************************)
(* Negative sampler.                                                       *)
(***************************************************************************)
\* a violation test with a margin of 3.0, wider than the hinge's
violation_warp_wide_margin(item, user, pos_score) ==
    predict_score(<<user>>, <<item>>)[1] > pos_score - 3

\* violation_warp(neg_item_ind, user_tensor, pos_score, net)
violation_warp(item, user, pos_score) ==
    predict_score(<<user>>, <<item>>)[1] > pos_score - 1

\* the violating_cond sample_neg is called with
violating_cond(item) ==
    IF variant = "warp" THEN violation_warp(item, nnz_users[k], pos_scores[k])
    ELSE TRUE

\* a loop that runs once more than max_samples
loop_cond_inclusive(n) == n <= max_samples

\* sample_neg: the condition of the while loop
loop_cond(n) == n < max_samples

\* a sampler that does not test membership in the positive set
accepts_any_item(user, item) == violating_cond(item)

\* sample_neg: the two tests that lead to break
accepts(user, item) ==
    item \notin get_row_nz(train, user) /\ violating_cond(item)

\* a count that leaves out the draw of the returned candidate
sample_neg_return_before(item, n) == <<item, n - 1>>

\* sample_neg: the returned tuple
sample_neg_return(item, n) == <<item, n>>

\* an exhausted search reported with one attempt less than max_samples
exhausted_short(n) == n >= max_samples - 1

\* sample_neg: the while loop ends without break
exhausted(n) == ~loop_cond(n)

\* zip(*tuples): the transposition of a list of pairs
zip_star(tuples) ==
    IF tuples = <<>> THEN <<>>
    ELSE <<[j \in 1 .. Len(tuples) |-> tuples[j][1]],
           [j \in 1 .. Len(tuples) |-> tuples[j][2]]>>

(***************************************************************************)
(* Init: the notebook's state when the training cell starts (the model     *)
(* built, nnz_users, nnz_items and shuffle_ind computed).  The preload     *)
(* cell's own sampling pass is not modelled: the first Resample of the     *)
(* loop rebinds its results before they are read.                          *)
(***************************************************************************)
Init ==
    /\ variant \in {"warp", "plain"}
    /\ train \in Matrices
    /\ max_samples \in 1 .. MaxMaxSamples
    /\ batch_size \in 1 .. MaxBatchSize
    /\ user_emb \in [Users -> [Dims -> InitVals]]
    /\ item_emb \in [Items -> [Dims -> InitVals]]
    /\ grad = [users |-> {}, items |-> {}]
    /\ pc = "resample"
    /\ epoch = 0
    /\ nnz_users = [j \in 1 .. Len(nonzero(train)) |-> nonzero(train)[j][1]]
    /\ nnz_items = [j \in 1 .. Len(nonzero(train)) |-> nonzero(train)[j][2]]
    /\ shuffle_ind = arange(Len(nonzero(train)))
    /\ pos_scores = <<>>
    /\ k = 0
    /\ n_sampled = 0
    /\ neg_item_ind = NoItem
    /\ returned = <<>>
    /\ nid_preload = <<>>
    /\ n_sampled_preload = <<>>
    /\ uid_gen = <<>> /\ pid_gen = <<>> /\ nid_gen = <<>> /\ n_samp_gen = <<>>
    /\ uid_batch = <<>> /\ pid_batch = <<>> /\ nid_batch = <<>> /\ nsamp_batch = <<>>
    /\ pos_pred = <<>> /\ neg_pred = <<>>
    /\ loss = "none"
    /\ avg_nsamp = <<0, 0>>
    /\ steps = 0
    /\ calls = 0
    /\ trace = <<>>
    /\ b_in = <<>> /\ b_size = 1 /\ b_out = <<>>
    /\ net = 0 /\ instances = <<>>
    /\ user_id = 0 /\ scores = <<>> /\ aucs = <<>>
    /\ CritIdle

(***************************************************************************)
(* Resample.                                                               *)
(***************************************************************************)
\* sample_warp up to its for loop / the start of the generator expression
ResampleBegin ==
    /\ pc = "resample"
    /\ pos_scores' = IF variant = "warp" THEN predict_score(nnz_users, nnz_items)
                     ELSE <<>>
    /\ nid_preload' = <<>>
    /\ n_sampled_preload' = <<>>
    /\ returned' = <<>>
    /\ trace' = <<>>
    /\ calls' = 0
    /\ k' = 1
    /\ n_sampled' = 0
    /\ neg_item_ind' = NoItem
    /\ IF variant = "warp" THEN Lookup(nnz_users, nnz_items)
       ELSE UNCHANGED net_vars
    /\ pc' = IF Len(nnz_users) = 0 THEN "unpack" ELSE "sample_neg"
    /\ UNCHANGED <<config_vars, grad, epoch, shuffle_ind, gen_vars,
                   batch_vars, avg_nsamp, steps, batcher_vars, aside_vars>>

\* one iteration of sample_neg's while loop for the k-th nonzero pair; when
\* the loop ends, the return and the caller's bookkeeping of the result
SampleNegDraw(item) ==
    /\ pc = "sample_neg"
    /\ loop_cond(n_sampled)
    /\ LET n == n_sampled + 1
           brk == accepts(nnz_users[k], item)
       IN IF brk \/ exhausted(n)
          THEN LET ret == sample_neg_return(item, n)
               IN /\ IF variant = "warp"
                     THEN /\ nid_preload' = Append(nid_preload, ret[1])
                          /\ n_sampled_preload' = Append(n_sampled_preload, ret[2])
                          /\ returned' = returned
                     ELSE /\ returned' = Append(returned, ret)
                          /\ UNCHANGED preload_vars
                  /\ trace' = Append(trace, [user |-> nnz_users[k],
                                             pos |-> nnz_items[k],
                                             via_break |-> brk,
                                             last |-> item,
                                             draws |-> n,
                                             nid |-> ret[1],
                                             nsamp |-> ret[2]])
                  /\ calls' = calls + 1
                  /\ k' = k + 1
                  /\ n_sampled' = 0
                  /\ neg_item_ind' = NoItem
                  /\ pc' = IF k + 1 > Len(nnz_users) THEN "unpack" ELSE "sample_neg"
          ELSE /\ n_sampled' = n
               /\ neg_item_ind' = item
               /\ UNCHANGED <<k, returned, preload_vars, trace, calls, pc>>
    /\ IF variant = "warp" /\ item \notin get_row_nz(train, nnz_users[k])
       THEN Lookup(<<nnz_users[k]>>, <<item>>)
       ELSE UNCHANGED net_vars
    /\ UNCHANGED <<config_vars, grad, epoch, shuffle_ind, pos_scores,
                   gen_vars, batch_vars, avg_nsamp, steps, batcher_vars, aside_vars>>

\* the assignment  nid_preload, n_sampled_preload = map(np.array, ...)
Unpack ==
    /\ pc = "unpack"
    /\ LET rhs == IF variant = "warp" THEN <<nid_preload, n_sampled_preload>>
                  ELSE zip_star(returned)
       IN IF Len(rhs) = 2
          THEN /\ nid_preload' = rhs[1]
               /\ n_sampled_preload' = rhs[2]
               /\ pc' = "shuffle"
          ELSE /\ UNCHANGED preload_vars
               /\ pc' = "raised"
    /\ returned' = <<>>
    /\ pos_scores' = <<>>
    /\ k' = 0
    /\ UNCHANGED <<config_vars, net_vars, grad, epoch, shuffle_ind,
                   n_sampled, neg_item_ind, trace, calls, gen_vars, batch_vars,
                   avg_nsamp, steps, batcher_vars, aside_vars>>

(***************************************************************************)
(* Shuffle and Batch.                                                      *)
(***************************************************************************)
\* np.random.shuffle(shuffle_ind)
Shuffle(p) ==
    /\ pc = "shuffle"
    /\ shuffle_ind' = [j \in 1 .. Len(shuffle_ind) |-> shuffle_ind[p[j]]]
    /\ pc' = "batch"
    /\ UNCHANGED <<config_vars, net_vars, grad, epoch, sampler_vars, preload_vars,
                   gen_vars, batch_vars, avg_nsamp, steps, calls, batcher_vars, aside_vars>>

\* the four batcher(...[shuffle_ind], batch_size) generators; the unpermuted
\* arrays are not read again (the next Resample rebinds them) and are dropped
Batch ==
    /\ pc = "batch"
    /\ uid_gen' = batcher(take(nnz_users, shuffle_ind), batch_size)
    /\ pid_gen' = batcher(take(nnz_items, shuffle_ind), batch_size)
    /\ nid_gen' = batcher(take(nid_preload, shuffle_ind), batch_size)
    /\ n_samp_gen' = batcher(take(n_sampled_preload, shuffle_ind), batch_size)
    /\ avg_nsamp' = <<0, 0>>
    /\ nid_preload' = <<>>
    /\ n_sampled_preload' = <<>>
    /\ trace' = <<>>
    /\ pc' = "loop"
    /\ UNCHANGED <<config_vars, net_vars, grad, epoch, shuffle_ind, pos_scores, k,
                   n_sampled, neg_item_ind, returned, batch_vars, steps, calls,
                   batcher_vars, aside_vars>>

(***************************************************************************)
(* The batch loop.                                                         *)
(***************************************************************************)
\* the generators the for loop zips
zipped == IF variant = "warp" THEN <<uid_gen, pid_gen, nid_gen, n_samp_gen>>
          ELSE <<uid_gen, pid_gen, nid_gen>>

zip_has_next == \A g \in 1 .. Len(zipped) : zipped[g] # <<>>

\* zip yields the next batches; net(...) and criterion(...) are computed
LoopNext ==
    /\ pc = "loop"
    /\ zip_has_next
    /\ uid_batch' = Head(uid_gen) /\ uid_gen' = Tail(uid_gen)
    /\ pid_batch' = Head(pid_gen) /\ pid_gen' = Tail(pid_gen)
    /\ nid_batch' = Head(nid_gen) /\ nid_gen' = Tail(nid_gen)
    /\ IF variant = "warp"
       THEN nsamp_batch' = Head(n_samp_gen) /\ n_samp_gen' = Tail(n_samp_gen)
       ELSE UNCHANGED <<nsamp_batch, n_samp_gen>>
    /\ LET out == forward(Head(uid_gen), Head(pid_gen), Head(nid_gen))
       IN pos_pred' = out[1] /\ neg_pred' = out[2]
    /\ loss' = criterion(variant, IF variant = "warp" THEN Head(n_samp_gen) ELSE <<>>)
    /\ Lookup(Head(uid_gen), Head(pid_gen) \o Head(nid_gen))
    /\ pc' = "backward"
    /\ UNCHANGED <<config_vars, grad, epoch, shuffle_ind, sampler_vars,
                   preload_vars, avg_nsamp, steps, calls, batcher_vars, aside_vars>>

\* evaluation indented into the batch loop
after_step_evaluates == "evaluate"

\* the for loop's back edge
after_step == "loop"

\* loss.backward(); optimizer.step(): .grad is never zeroed, so every row a
\* batch has touched since construction may move.  The optimizer is the
\* library's: the new rows are any values of EmbVals.
BackwardStep ==
    /\ pc = "backward"
    /\ loss = "finite"
    /\ LET g == [users |-> grad.users \cup Range(uid_batch),
                 items |-> grad.items \cup Range(pid_batch) \cup Range(nid_batch)]
       IN /\ grad' = g
          /\ \E nu \in [g.users -> [Dims -> EmbVals]] :
                 user_emb' = [u \in Users |-> IF u \in g.users THEN nu[u]
                                              ELSE user_emb[u]]
          /\ \E ni \in [g.items -> [Dims -> EmbVals]] :
                 item_emb' = [i \in Items |-> IF i \in g.items THEN ni[i]
                                              ELSE item_emb[i]]
    /\ avg_nsamp' = <<avg_nsamp[1] + SumSeq(nsamp_batch), avg_nsamp[2] + Len(nsamp_batch)>>
    /\ steps' = steps + 1
    /\ uid_batch' = <<>> /\ pid_batch' = <<>> /\ nid_batch' = <<>> /\ nsamp_batch' = <<>>
    /\ pos_pred' = <<>> /\ neg_pred' = <<>>
    /\ loss' = "none"
    /\ pc' = after_step
    /\ UNCHANGED <<config_vars, epoch, shuffle_ind, sampler_vars, preload_vars,
                   gen_vars, calls, batcher_vars, aside_vars>>

\* the loss is -inf or NaN: backward writes non-finite gradients and the
\* step non-finite rows; the run is not followed further
BackwardNonfinite ==
    /\ pc = "backward"
    /\ loss = "nonfinite"
    /\ pc' = "nonfinite"
    /\ UNCHANGED <<config_vars, net_vars, grad, epoch, shuffle_ind, sampler_vars,
                   preload_vars, gen_vars, batch_vars, avg_nsamp, steps, calls,
                   batcher_vars, aside_vars>>

\* zip is exhausted: the epoch's mean attempt count is taken
LoopExit ==
    /\ pc = "loop"
    /\ ~zip_has_next
    /\ pc' = "evaluate"
    /\ UNCHANGED <<config_vars, net_vars, grad, epoch, shuffle_ind, sampler_vars,
                   preload_vars, gen_vars, batch_vars, avg_nsamp, steps, calls,
                   batcher_vars, aside_vars>>

(***************************************************************************)
(* Evaluate and Report.                                                    *)
(***************************************************************************)
\* the AUC of the model on train and on test: every user is scored against
\* every item of the catalog
Evaluate ==
    /\ pc = "evaluate"
    /\ Lookup(arange(n_users), arange(n_items))
    /\ pc' = "report"
    /\ UNCHANGED <<config_vars, grad, epoch, shuffle_ind, sampler_vars,
                   preload_vars, gen_vars, batch_vars, avg_nsamp, steps, calls,
                   batcher_vars, aside_vars>>

\* the prints that end the iteration; the epoch's generators are not read
\* again (the next Batch rebinds them) and are dropped here
Report ==
    /\ pc = "report"
    /\ epoch' = epoch + 1
    /\ pc' = IF epoch + 1 < num_epochs THEN "resample" ELSE "done"
    /\ uid_gen' = <<>> /\ pid_gen' = <<>> /\ nid_gen' = <<>> /\ n_samp_gen' = <<>>
    /\ avg_nsamp' = <<0, 0>>
    /\ steps' = 0
    /\ calls' = 0
    /\ UNCHANGED <<config_vars, net_vars, grad, shuffle_ind, pos_scores, k,
                   n_sampled, neg_item_ind, returned, trace, preload_vars,
                   batch_vars, batcher_vars, aside_vars>>

Next ==
    \/ ResampleBegin
    \/ \E item \in Items : SampleNegDraw(item)
    \/ Unpack
    \/ \E p \in Perms(Len(shuffle_ind)) : Shuffle(p)
    \/ Batch
    \/ LoopNext
    \/ BackwardStep
    \/ BackwardNonfinite
    \/ LoopExit
    \/ Evaluate
    \/ Report

Spec == Init /\ [][Next]_vars

TypeOK ==
    /\ pc \in {"resample", "sample_neg", "unpack", "shuffle", "batch", "loop",
               "backward", "evaluate", "report", "done", "raised", "nonfinite",
               "batcher", "batcher_done", "construct",
               "full_auc", "evaluated", "criterion", "weight_done",
               "criterion_done", "score", "scored", "doubled", "rescored"}
    /\ epoch \in 0 .. num_epochs
    /\ n_sampled \in 0 .. max_samples

(***************************************************************************)
(* batcher on its own: a sequence and a batch size are drawn, batcher is   *)
(* applied.                                                                *)
(***************************************************************************)
BatcherInputs == UNION {[1 .. n -> Items] : n \in 0 .. MaxLen}

InitBatcher ==
    /\ variant = "plain"
    /\ train = [u \in Users |-> {}]
    /\ max_samples = 1
    /\ batch_size = 1
    /\ user_emb = [u \in Users |-> [d \in Dims |-> 1]]
    /\ item_emb = [i \in Items |-> [d \in Dims |-> 1]]
    /\ grad = [users |-> {}, items |-> {}]
    /\ pc = "batcher"
    /\ epoch = 0
    /\ nnz_users = <<>> /\ nnz_items = <<>> /\ shuffle_ind = <<>>
    /\ pos_scores = <<>>
    /\ k = 0
    /\ n_sampled = 0
    /\ neg_item_ind = NoItem
    /\ returned = <<>>
    /\ nid_preload = <<>>
    /\ n_sampled_preload = <<>>
    /\ uid_gen = <<>> /\ pid_gen = <<>> /\ nid_gen = <<>> /\ n_samp_gen = <<>>
    /\ uid_batch = <<>> /\ pid_batch = <<>> /\ nid_batch = <<>> /\ nsamp_batch = <<>>
    /\ pos_pred = <<>> /\ neg_pred = <<>>
    /\ loss = "none"
    /\ avg_nsamp = <<0, 0>>
    /\ steps = 0
    /\ calls = 0
    /\ trace = <<>>
    /\ b_in \in BatcherInputs
    /\ b_size \in 1 .. MaxLen
    /\ b_out = <<>>
    /\ net = 0 /\ instances = <<>>
    /\ user_id = 0 /\ scores = <<>> /\ aucs = <<>>
    /\ CritIdle

BatcherApply ==
    /\ pc = "batcher"
    /\ b_out' = batcher(b_in, b_size)
    /\ pc' = "batcher_done"
    /\ UNCHANGED <<config_vars, net_vars, grad, epoch, shuffle_ind, sampler_vars,
                   preload_vars, gen_vars, batch_vars, avg_nsamp, steps, calls,
                   b_in, b_size, aside_vars>>

NextBatcher == BatcherApply

SpecBatcher == InitBatcher /\ [][NextBatcher]_vars

(***************************************************************************)
(* The variables of the training cell, at rest while another cell is       *)
(* followed on its own.                                                    *)
(***************************************************************************)
LoopIdle ==
    /\ max_samples = 1
    /\ batch_size = 1
    /\ grad = [users |-> {}, items |-> {}]
    /\ epoch = 0
    /\ nnz_users = <<>> /\ nnz_items = <<>> /\ shuffle_ind = <<>>
    /\ pos_scores = <<>>
    /\ k = 0
    /\ n_sampled = 0
    /\ neg_item_ind = NoItem
    /\ returned = <<>>
    /\ nid_preload = <<>>
    /\ n_sampled_preload = <<>>
    /\ uid_gen = <<>> /\ pid_gen = <<>> /\ nid_gen = <<>> /\ n_samp_gen = <<>>
    /\ uid_batch = <<>> /\ pid_batch = <<>> /\ nid_batch = <<>> /\ nsamp_batch = <<>>
    /\ pos_pred = <<>> /\ neg_pred = <<>>
    /\ loss = "none"
    /\ avg_nsamp = <<0, 0>>
    /\ steps = 0
    /\ calls = 0
    /\ trace = <<>>
    /\ b_in = <<>> /\ b_size = 1 /\ b_out = <<>>

loop_vars == <<max_samples, batch_size, grad, epoch, nnz_users, nnz_items,
               shuffle_ind, sampler_vars, preload_vars, gen_vars, batch_vars,
               avg_nsamp, steps, calls, batcher_vars>>

(***************************************************************************)
(* The model cell on its own:  net = FactNet(n_users, n_items, n_latent),  *)
(* run in a kernel where the name net is unbound or names an earlier       *)
(* model, and run again.  variant = "bpr" is src/unnamed/part_000.  One    *)
(* unit of an embedding entry stands for the bound r of init.uniform.      *)
(***************************************************************************)
\* init.uniform(weight, -r, r): the bound r
init_r == 1

\* values of nn.Embedding's own initialisation (a standard normal draw):
\* one inside [-r, r] and one outside
NormalVals == {0, 2}

Tables(vals) == [user : [Users -> [Dims -> vals]], item : [Items -> [Dims -> vals]]]

\* the instance whose weights __init__ hands to init.uniform: self, or in
\* part_000 whatever the module-level name net is bound to
uniform_target(v, self) == IF v = "bpr" THEN net ELSE self

InitConstruct ==
    /\ variant \in {"bpr", "warp", "plain"}
    /\ train = [u \in Users |-> {}]
    /\ user_emb = [u \in Users |-> [d \in Dims |-> 1]]
    /\ item_emb = [i \in Items |-> [d \in Dims |-> 1]]
    /\ LoopIdle
    /\ pc = "construct"
    /\ instances \in {<<>>} \cup {<<t>> : t \in Tables(EmbVals)}
    /\ net = Len(instances)
    /\ user_id = 0 /\ scores = <<>> /\ aucs = <<>>
    /\ CritIdle

\* FactNet.__init__ and the assignment to net
Construct ==
    /\ pc = "construct"
    /\ Len(instances) < MaxNets
    /\ \E fresh \in Tables(NormalVals), drawn \in Tables(InitVals) :
           LET self == Len(instances) + 1
               target == uniform_target(variant, self)
           IN IF target = 0
              THEN \* NameError: name 'net' is not defined
                   /\ pc' = "raised"
                   /\ UNCHANGED ctor_vars
              ELSE /\ instances' = [Append(instances, fresh) EXCEPT ![target] = drawn]
                   /\ net' = self
                   /\ pc' = "construct"
    /\ UNCHANGED <<variant, train, net_vars, loop_vars, eval_vars, crit_vars>>

NextConstruct == Construct

SpecConstruct == InitConstruct /\ [][NextConstruct]_vars

(***************************************************************************)
(* full_auc(net, ground_truth) of src/unnamed/part_000 on its own: the     *)
(* calls the training loop makes on the training matrix, epoch after       *)
(* epoch, with or without optimizer steps in between.  A fraction is a     *)
(* pair <<numerator, denominator>>; NaN is 0/0.                            *)
(***************************************************************************)
NaN == <<0, 0>>

\* pid_arr = np.arange(no_items)
pid_arr == arange(n_items)

\* user_arr = np.array([user_id]*len(pid_arr))
user_arr(uid) == [j \in 1 .. Len(pid_arr) |-> uid]

\* row.toarray()[0].astype(bool)
toarray_bool(row) == [j \in 1 .. n_items |-> (j - 1) \in row]

\* sklearn's roc_auc_score raises ValueError when y_true holds one class only
one_class(y_true) == \A a, b \in DOMAIN y_true : y_true[a] = y_true[b]

\* roc_auc_score(y_true, y_score): the share of (positive, negative) pairs
\* the scores order correctly, a tie counting for a half
roc_auc_score(y_true, y_score) ==
    LET pairs == {q \in (DOMAIN y_true) \X (DOMAIN y_true) : y_true[q[1]] /\ ~y_true[q[2]]}
        above == Cardinality({q \in pairs : y_score[q[1]] > y_score[q[2]]})
        ties == Cardinality({q \in pairs : y_score[q[1]] = y_score[q[2]]})
    IN <<2 * above + ties, 2 * Cardinality(pairs)>>

RECURSIVE sum_frac(_)
sum_frac(s) ==
    IF s = <<>> THEN <<0, 1>>
    ELSE LET r == sum_frac(Tail(s))
         IN <<Head(s)[1] * r[2] + r[1] * Head(s)[2], Head(s)[2] * r[2]>>

\* a mean that reports 0 for an empty list
np_mean_empty_zero(s) == <<sum_frac(s)[1], sum_frac(s)[2] * Max(Len(s), 1)>>

\* np.mean(scores): the mean of an empty list is nan
np_mean(s) == IF s = <<>> THEN NaN ELSE <<sum_frac(s)[1], sum_frac(s)[2] * Len(s)>>

InitEval ==
    /\ variant = "bpr"
    /\ train \in Matrices
    /\ user_emb \in [Users -> [Dims -> EmbVals]]
    /\ item_emb \in [Items -> [Dims -> EmbVals]]
    /\ LoopIdle
    /\ net = 0 /\ instances = <<>>
    /\ pc = "full_auc"
    /\ user_id = 0
    /\ scores = <<>>
    /\ aucs = <<>>
    /\ CritIdle

\* one iteration of  for user_id, row in enumerate(ground_truth)
AucRow ==
    /\ pc = "full_auc"
    /\ user_id < n_users
    /\ LET row == get_row_nz(train, user_id)
           preds_arr == predict_score(user_arr(user_id), pid_arr)
           true_pids == row
       IN IF true_pids # {}
          THEN IF one_class(toarray_bool(row))
               THEN /\ pc' = "raised"
                    /\ UNCHANGED <<user_id, scores>>
               ELSE /\ scores' = Append(scores, roc_auc_score(toarray_bool(row), preds_arr))
                    /\ user_id' = user_id + 1
                    /\ pc' = pc
          ELSE /\ user_id' = user_id + 1
               /\ UNCHANGED <<scores, pc>>
    /\ Lookup(user_arr(user_id), pid_arr)
    /\ UNCHANGED <<variant, train, loop_vars, ctor_vars, aucs, crit_vars>>

\* return np.mean(scores)
AucReturn ==
    /\ pc = "full_auc"
    /\ user_id = n_users
    /\ aucs' = Append(aucs, [value |-> np_mean(scores), terms |-> scores, steps |-> steps])
    /\ scores' = <<>>
    /\ user_id' = 0
    /\ pc' = "evaluated"
    /\ UNCHANGED <<variant, train, net_vars, loop_vars, ctor_vars, crit_vars>>

\* the next call of full_auc
AucCall ==
    /\ pc = "evaluated"
    /\ Len(aucs) < MaxCalls
    /\ pc' = "full_auc"
    /\ UNCHANGED <<variant, train, net_vars, loop_vars, ctor_vars, eval_vars,
                   crit_vars>>

\* an optimizer step of the epoch between two evaluations
EvalStep ==
    /\ pc = "evaluated"
    /\ steps < Len(aucs)
    /\ Len(aucs) < MaxCalls
    /\ user_emb' \in [Users -> [Dims -> EmbVals]]
    /\ item_emb' \in [Items -> [Dims -> EmbVals]]
    /\ steps' = steps + 1
    /\ UNCHANGED <<variant, train, max_samples, batch_size, grad, epoch, nnz_users,
                   nnz_items, shuffle_ind, sampler_vars, preload_vars, gen_vars,
                   batch_vars, avg_nsamp, calls, batcher_vars, pc, ctor_vars,
                   eval_vars, crit_vars>>

NextEval == AucRow \/ AucReturn \/ AucCall \/ EvalStep

SpecEval == InitEval /\ [][NextEval]_vars

(***************************************************************************)
(* TripletLoss of src/unnamed/part_001 on its own: an object is built, a   *)
(* batch of scores and attempt counts is drawn, warp_weight or forward is  *)
(* applied.  Losses and logarithms are in hundredths; a value is a         *)
(* fraction <<numerator, denominator>>, -inf is -1/0 and NaN is 0/0.       *)
(***************************************************************************)
NegInf == <<-1, 0>>

\* 100 * ln(x) for x = 1, 2, ..., rounded
ln_centi == <<0, 69, 110, 139, 161, 179, 195, 208>>

\* the largest e with 2^e <= x, and 2^e
RECURSIVE ilog2(_)
ilog2(x) == IF x < 2 THEN 0 ELSE 1 + ilog2(x \div 2)

RECURSIVE pow2(_)
pow2(e) == IF e = 0 THEN 1 ELSE 2 * pow2(e - 1)

\* 100 * ln(x) beyond the table, rounded: with x = m * 2^e and
\* z = (m - 1) / (m + 1),  ln(x) = e ln(2) + 2 (z + z^3/3 + z^5/5),  computed
\* in ten-thousandths
ln_series(x) ==
    LET p == pow2(ilog2(x))
        z == (10000 * (x - p)) \div (x + p)
        z2 == (z * z) \div 10000
        z3 == (z2 * z) \div 10000
        z5 == (z3 * z2) \div 10000
    IN (ilog2(x) * 6931 + 2 * (z + z3 \div 3 + z5 \div 5) + 50) \div 100

\* torch.log / np.log
torch_log(x) ==
    IF x = 0 THEN NegInf
    ELSE IF x <= Len(ln_centi) THEN <<ln_centi[x], 100>>
    ELSE <<ln_series(x), 100>>

\* the scores a batch holds, and 100 * sigmoid(d) for d = -2 .. 2, rounded
ScoreVals == -1 .. 1
sigmoid_centi == <<12, 27, 50, 73, 88>>
torch_sigmoid(d) == <<sigmoid_centi[d + 3], 100>>

\* a ratio taken the wrong way round
floor_ratio_inverted(N, nsamp) == nsamp \div (N - 1)

\* torch.floor((self.n_items-1)/nsamp)
floor_ratio(N, nsamp) == (N - 1) \div nsamp

\* warp_weight(nsamp) of a TripletLoss built with n_items = N
warp_weight(N, nsamp) ==
    LET l == torch_log(floor_ratio(N, nsamp))
    IN IF l = NegInf THEN NegInf ELSE <<l[1], torch_log(N)[1]>>

forward_sigmoid(pos, neg) == <<100 - torch_sigmoid(pos - neg)[1], 100>>

\* a hinge without the clamp at zero
forward_hinge_unclamped(pos, neg) == <<100 * (1 + neg - pos), 100>>

\* torch.clamp(1.0 + neg_pred - pos_pred, min=0.0)
forward_hinge(pos, neg) == <<100 * Max(1 + neg - pos, 0), 100>>

\* loss_d[loss]
loss_d(kind, pos, neg) ==
    IF kind = "sigmoid" THEN forward_sigmoid(pos, neg) ELSE forward_hinge(pos, neg)

\* the product of a weight and a loss: -inf * 0 is nan
times(w, l) ==
    IF w = NegInf THEN (IF l[1] = 0 THEN NaN ELSE NegInf)
    ELSE <<w[1] * l[1], w[2] * l[2]>>

\* a premean that applies the weight whatever warp_weighting says
forward_premean_always_weighted(c, pos, neg, nsamp) ==
    [j \in 1 .. Len(pos) |->
        times(warp_weight(c.n_items, nsamp[j]), loss_d(c.loss, pos[j], neg[j]))]

\* self.forward_premean, as __init__ binds it
forward_premean(c, pos, neg, nsamp) ==
    [j \in 1 .. Len(pos) |->
        IF c.warp_weighting
        THEN times(warp_weight(c.n_items, nsamp[j]), loss_d(c.loss, pos[j], neg[j]))
        ELSE loss_d(c.loss, pos[j], neg[j])]

\* the sum of the entries of a tensor, which share one denominator
RECURSIVE tensor_sum(_)
tensor_sum(t) ==
    IF Len(t) = 1 THEN t[1]
    ELSE <<t[1][1] + tensor_sum(Tail(t))[1], t[1][2]>>

\* tensor.mean()
tensor_mean(t) ==
    IF t = <<>> \/ \E j \in 1 .. Len(t) : t[j] = NaN THEN NaN
    ELSE IF \E j \in 1 .. Len(t) : t[j] = NegInf THEN NegInf
    ELSE <<tensor_sum(t)[1], tensor_sum(t)[2] * Len(t)>>

\* TripletLoss.forward(*args)
loss_forward(c, pos, neg, nsamp) == tensor_mean(forward_premean(c, pos, neg, nsamp))

LossInputs ==
    UNION {[pos : [1 .. n -> ScoreVals], neg : [1 .. n -> ScoreVals],
            nsamp : [1 .. n -> 1 .. MaxNsamp]] : n \in 1 .. 2}

InitLoss ==
    /\ variant = "warp"
    /\ train = [u \in Users |-> {}]
    /\ user_emb = [u \in Users |-> [d \in Dims |-> 1]]
    /\ item_emb = [i \in Items |-> [d \in Dims |-> 1]]
    /\ LoopIdle
    /\ net = 0 /\ instances = <<>>
    /\ user_id = 0 /\ scores = <<>> /\ aucs = <<>>
    /\ pc = "criterion"
    /\ crit \in [loss : {"sigmoid", "hinge"}, warp_weighting : BOOLEAN,
                 n_items : 2 .. MaxItems]
    /\ call_args \in LossInputs
    /\ call_ret = <<>>

\* criterion.warp_weight(nsamp)
WarpWeightApply ==
    /\ pc = "criterion"
    /\ call_ret' = [weights |-> [j \in 1 .. Len(call_args.nsamp) |->
                                    warp_weight(crit.n_items, call_args.nsamp[j])]]
    /\ pc' = "weight_done"
    /\ UNCHANGED <<variant, train, net_vars, loop_vars, ctor_vars, eval_vars,
                   crit, call_args>>

\* criterion(pos_pred, neg_pred, nsamp)
CriterionApply ==
    /\ pc = "criterion"
    /\ call_ret' = [premean |-> forward_premean(crit, call_args.pos, call_args.neg, call_args.nsamp),
                    mean |-> loss_forward(crit, call_args.pos, call_args.neg, call_args.nsamp)]
    /\ pc' = "criterion_done"
    /\ UNCHANGED <<variant, train, net_vars, loop_vars, ctor_vars, eval_vars,
                   crit, call_args>>

NextLoss == WarpWeightApply \/ CriterionApply

SpecLoss == InitLoss /\ [][NextLoss]_vars

(***************************************************************************)
(* warp_weight of the criterion the WARP notebook builds, on its own: the  *)
(* catalog is MovieLens's, the attempt count is any count sample_neg       *)
(* returns when it is called with its default max_samples.                 *)
(***************************************************************************)
\* print(n_users, n_items): 944 1683
n_items_movielens == 1683

\* def sample_neg(user_ind, interactions, max_samples=100, ...)
max_samples_default == 100

InitWeight ==
    /\ variant = "warp"
    /\ train = [u \in Users |-> {}]
    /\ user_emb = [u \in Users |-> [d \in Dims |-> 1]]
    /\ item_emb = [i \in Items |-> [d \in Dims |-> 1]]
    /\ LoopIdle
    /\ net = 0 /\ instances = <<>>
    /\ user_id = 0 /\ scores = <<>> /\ aucs = <<>>
    /\ pc = "criterion"
    /\ crit = [loss |-> "hinge", warp_weighting |-> TRUE, n_items |-> n_items_movielens]
    /\ call_args \in [nsamp : {<<n>> : n \in 1 .. max_samples_default}]
    /\ call_ret = <<>>

NextWeight == WarpWeightApply

SpecWeight == InitWeight /\ [][NextWeight]_vars

(***************************************************************************)
(* FactNet.predict_score on its own: a model with n_latent coordinates is  *)
(* drawn, predict_score is applied to a pair of id vectors, one row of the *)
(* user table is overwritten with its double, predict_score is applied     *)
(* again.                                                                  *)
(***************************************************************************)
\* uid and iid of equal length: element-wise pairs, one user against all
\* items among them
ScoreInputs ==
    UNION {[uid : [1 .. n -> Users], iid : [1 .. n -> Items], user : Users] :
              n \in 1 .. n_items}

InitScore ==
    /\ variant = "warp"
    /\ train = [u \in Users |-> {}]
    /\ \E n \in 1 .. MaxLatent :
           /\ user_emb \in [Users -> [1 .. n -> EmbVals]]
           /\ item_emb \in [Items -> [1 .. n -> EmbVals]]
    /\ LoopIdle
    /\ net = 0 /\ instances = <<>>
    /\ user_id = 0 /\ scores = <<>> /\ aucs = <<>>
    /\ crit = [loss |-> "hinge", warp_weighting |-> FALSE, n_items |-> n_items]
    /\ pc = "score"
    /\ call_args \in ScoreInputs
    /\ call_ret = <<>>

\* net.predict_score(uid, iid)
ScoreApply ==
    /\ pc \in {"score", "doubled"}
    /\ call_ret' = Append(call_ret, predict_score(call_args.uid, call_args.iid))
    /\ Lookup(call_args.uid, call_args.iid)
    /\ pc' = IF pc = "score" THEN "scored" ELSE "rescored"
    /\ UNCHANGED <<variant, train, loop_vars, ctor_vars, eval_vars, crit, call_args>>

\* a write to one row of the user table: every entry is doubled
DoubleRow ==
    /\ pc = "scored"
    /\ user_emb' = [user_emb EXCEPT ![call_args.user] =
                        [d \in DOMAIN user_emb[call_args.user] |->
                            2 * user_emb[call_args.user][d]]]
    /\ pc' = "doubled"
    /\ UNCHANGED <<variant, train, item_emb, loop_vars, ctor_vars, eval_vars,
                   crit_vars>>

NextScore == ScoreApply \/ DoubleRow

SpecScore == InitScore /\ [][NextScore]_vars

(***************************************************************************)
(* The training cell of src/unnamed/part_001 as it ran in the session the  *)
(* notebook records (n_users = 944, n_items = 1683, n_latent = 20,         *)
(* batch_size = 64, hinge loss with WARP weighting, uniform(-0.5, 0.5)):   *)
(* the epochs follow one another and each prints the AUC the session       *)
(* printed.  An AUC is in millionths, truncated.                           *)
(***************************************************************************)
\* the lines  Epoch e  AUC: train:...  test:...  of the cell's output
recorded_output ==
    <<[train |-> 804675, test |-> 698668],
      [train |-> 908110, test |-> 828589],
      [train |-> 933084, test |-> 857523],
      [train |-> 945215, test |-> 869739],
      [train |-> 953289, test |-> 879337],
      [train |-> 958571, test |-> 885195],
      [train |-> 961578, test |-> 887316],
      [train |-> 963488, test |-> 887488],
      [train |-> 964939, test |-> 887765],
      [train |-> 966455, test |-> 888851],
      [train |-> 967944, test |-> 890362],
      [train |-> 968946, test |-> 891403],
      [train |-> 969556, test |-> 891848],
      [train |-> 969945, test |-> 892080],
      [train |-> 970501, test |-> 892816],
      [train |-> 971118, test |-> 893418],
      [train |-> 971521, test |-> 893730],
      [train |-> 971888, test |-> 893763],
      [train |-> 972266, test |-> 893594],
      [train |-> 972759, test |-> 893595]>>

\* num_epochs of the recorded session
recorded_epochs == Len(recorded_output)

\* what the recorded session leaves alone in the model: the matrix, the
\* tables and the batches are those of MovieLens and are not followed
run_rest == <<variant, train, net_vars, max_samples, batch_size, grad, nnz_users,
              nnz_items, shuffle_ind, sampler_vars, preload_vars, gen_vars,
              batch_vars, avg_nsamp, steps, calls, batcher_vars, ctor_vars,
              user_id, scores, crit_vars>>

InitRun ==
    /\ variant = "warp"
    /\ train = [u \in Users |-> {}]
    /\ user_emb = [u \in Users |-> [d \in Dims |-> 1]]
    /\ item_emb = [i \in Items |-> [d \in Dims |-> 1]]
    /\ LoopIdle
    /\ net = 0 /\ instances = <<>>
    /\ user_id = 0 /\ scores = <<>> /\ aucs = <<>>
    /\ CritIdle
    /\ pc = "resample"

\* print('Epoch %d' % epoch); sample_warp(train, net)
RunResample ==
    /\ pc = "resample"
    /\ pc' = "shuffle"
    /\ UNCHANGED <<run_rest, epoch, aucs>>

\* np.random.shuffle(shuffle_ind)
RunShuffle ==
    /\ pc = "shuffle"
    /\ pc' = "batch"
    /\ UNCHANGED <<run_rest, epoch, aucs>>

\* the four batcher generators
RunBatch ==
    /\ pc = "batch"
    /\ pc' = "loop"
    /\ UNCHANGED <<run_rest, epoch, aucs>>

\* the batch loop of the epoch, from its first batch to its last
RunLoop ==
    /\ pc = "loop"
    /\ pc' = "evaluate"
    /\ UNCHANGED <<run_rest, epoch, aucs>>

\* metrics.full_auc_pytorch(net, train), metrics.full_auc_pytorch(net, test)
RunEvaluate ==
    /\ pc = "evaluate"
    /\ aucs' = Append(aucs, recorded_output[epoch + 1])
    /\ pc' = "report"
    /\ UNCHANGED <<run_rest, epoch>>

\* the two prints that end the iteration
RunReport ==
    /\ pc = "report"
    /\ epoch' = epoch + 1
    /\ pc' = IF epoch + 1 < recorded_epochs THEN "resample" ELSE "done"
    /\ UNCHANGED <<run_rest, aucs>>

NextRun ==
    \/ RunResample
    \/ RunShuffle
    \/ RunBatch
    \/ RunLoop
    \/ RunEvaluate
    \/ RunReport

SpecRun == InitRun /\ [][NextRun]_vars

(***************************************************************************)
(* Properties.                                                             *)
(***************************************************************************)
\* the nonzero entries of the training matrix, counted on the matrix itself
nnz_pairs == {p \in Users \X Items : p[2] \in train[p[1]]}

Calls == 1 .. Len(trace)

\* C1: every sample_neg call that ends through break returns an item that is
\* not in the positive set of its user.
C1_AcceptedIsNegative ==
    \A j \in Calls :
        trace[j].via_break => trace[j].nid \notin get_row_nz(train, trace[j].user)

C1_Witness ==
    \E j \in Calls : /\ trace[j].via_break
                     /\ trace[j].draws > 1
                     /\ get_row_nz(train, trace[j].user) # {}

\* C2: a sample_neg call whose max_samples draws were all rejected returns
\* normally, with the last drawn candidate and the count max_samples, after
\* exactly max_samples draws.
C2_ExhaustedReturnsLast ==
    /\ \A j \in Calls :
           ~trace[j].via_break =>
               /\ trace[j].nid = trace[j].last
               /\ trace[j].nsamp = max_samples
               /\ trace[j].draws = max_samples

\* an exhausted call whose returned candidate is one of the user's positives
C2_Witness ==
    \E j \in Calls : /\ ~trace[j].via_break
                     /\ trace[j].nid \in get_row_nz(train, trace[j].user)
                     /\ pc = "shuffle"

\* C3: sample_neg makes at most max_samples draws and returns the number of
\* draws it made, between 1 and max_samples.
C3_BoundedEffort ==
    /\ n_sampled <= max_samples
    /\ \A j \in Calls :
           /\ trace[j].nsamp = trace[j].draws
           /\ 1 <= trace[j].nsamp
           /\ trace[j].nsamp <= max_samples

C3_Witness ==
    \E j \in Calls : trace[j].draws = max_samples /\ max_samples = MaxMaxSamples

\* C4 as stated: the returned count equals max_samples exactly when the
\* search was exhausted without accepting a candidate.
C4_CountIffExhausted ==
    \A j \in Calls : (trace[j].nsamp = max_samples) <=> ~trace[j].via_break

\* C4 as amended: an exhausted search returns the count max_samples, and a
\* count below max_samples comes with an accepted negative that is outside
\* the positive set.
C4_CountBelowCapIsAccepted ==
    \A j \in Calls :
        /\ ~trace[j].via_break => trace[j].nsamp = max_samples
        /\ trace[j].nsamp < max_samples =>
               /\ trace[j].via_break
               /\ trace[j].nid \notin get_row_nz(train, trace[j].user)

\* a candidate accepted on the last permitted draw: the count is max_samples
C4_Witness ==
    \E j \in Calls : /\ trace[j].via_break
                     /\ trace[j].nsamp = max_samples
                     /\ max_samples > 1

\* C5: whenever the WARP weight is computed, the argument of the logarithm
\* is at least 1 and the loss is a defined value.
C5_LogArgAtLeastOne ==
    /\ loss # "nonfinite"
    /\ (variant = "warp" /\ pc = "backward") =>
           \A j \in 1 .. Len(nsamp_batch) : log_arg(nsamp_batch[j]) >= 1

\* C6: the phases of an epoch follow Resample, Shuffle, Batch, the
\* forward/step rounds, Evaluate, Report: an optimizer step is taken only
\* when the epoch's sampling is complete, no draw is made once a step has been
\* taken, and evaluation starts only when no batch is left.
PhaseOrder ==
    {<<"resample", "sample_neg">>, <<"resample", "unpack">>,
     <<"sample_neg", "unpack">>, <<"unpack", "shuffle">>, <<"unpack", "raised">>,
     <<"shuffle", "batch">>, <<"batch", "loop">>, <<"loop", "backward">>,
     <<"backward", "loop">>, <<"backward", "nonfinite">>, <<"loop", "evaluate">>,
     <<"evaluate", "report">>, <<"report", "resample">>, <<"report", "done">>}

C6_PhaseOrder ==
    [][/\ pc' # pc => <<pc, pc'>> \in PhaseOrder
       /\ steps' = steps + 1 => calls = Cardinality(nnz_pairs) /\ calls' = calls
       /\ calls' = calls + 1 => steps = 0 /\ steps' = 0
       /\ pc' = "evaluate" => ~zip_has_next'
       /\ pc \in {"evaluate", "report"} => steps' = steps \/ steps' = 0]_vars

\* an epoch after the first reaches Evaluate after two optimizer steps
C6_Witness == pc = "evaluate" /\ steps = 2 /\ epoch = 1

\* C7: when a Resample pass has ended, sample_neg has been called exactly
\* once for every nonzero pair, in the order of nonzero(), no call was made
\* for a user without positives, the arrays handed to the epoch hold one
\* triplet per pair, and the pass has raised no error.
C7_OneCallPerPair ==
    /\ pc = "unpack" =>
           /\ Len(trace) = Cardinality(nnz_pairs)
           /\ \A p \in nnz_pairs :
                  Cardinality({j \in Calls : trace[j].user = p[1] /\ trace[j].pos = p[2]}) = 1
           /\ \A j \in Calls : train[trace[j].user] # {}
    /\ pc \in {"shuffle", "batch"} =>
           /\ Len(nid_preload) = Cardinality(nnz_pairs)
           /\ Len(n_sampled_preload) = Cardinality(nnz_pairs)
           /\ \A j \in Calls : nid_preload[j] = trace[j].nid
                                /\ n_sampled_preload[j] = trace[j].nsamp
    /\ pc # "raised"

\* C8: with a training matrix without nonzero entries the epoch raises no
\* error, takes no optimizer step and reaches Evaluate and Report.
C8_EmptyMatrixNoError ==
    nnz_pairs = {} => pc # "raised" /\ steps = 0

\* C9: batcher yields ceil(L/B) chunks that are the input cut in order into
\* contiguous pieces of size B, the last of size L mod B (B when that is 0);
\* an empty input yields no chunk.
RECURSIVE Concat(_)
Concat(chunks) == IF chunks = <<>> THEN <<>> ELSE Head(chunks) \o Concat(Tail(chunks))

CeilDiv(a, b) == (a + b - 1) \div b

C9_BatcherChunks ==
    pc = "batcher_done" =>
        LET L == Len(b_in)
            B == b_size
            n == Len(b_out)
        IN /\ n = CeilDiv(L, B)
           /\ Concat(b_out) = b_in
           /\ \A c \in 1 .. n - 1 : Len(b_out[c]) = B
           /\ n > 0 => Len(b_out[n]) = (IF L % B = 0 THEN B ELSE L % B)
           /\ L = 0 => b_out = <<>>

\* several full chunks followed by a shorter one
C9_Witness ==
    /\ pc = "batcher_done"
    /\ Len(b_out) = 2
    /\ Len(b_out[1]) = MaxLen - 1
    /\ Len(b_out[2]) = 1

\* C10: the scores forward(uid, pid, nid) hands to the loss are the pair
\* (predict_score(uid, pid), predict_score(uid, nid)), both read from the one
\* item table, so a triplet whose negative is its positive has equal scores.
C10_ForwardIsPairOfScores ==
    pc = "backward" =>
        /\ <<pos_pred, neg_pred>> = <<predict_score(uid_batch, pid_batch),
                                      predict_score(uid_batch, nid_batch)>>
        /\ \A j \in 1 .. Len(uid_batch) :
               pid_batch[j] = nid_batch[j] => pos_pred[j] = neg_pred[j]

\* a batch of two triplets, after an optimizer step has changed the tables,
\* whose positive and negative scores differ
C10_Witness ==
    /\ pc = "backward"
    /\ Len(uid_batch) = 2
    /\ grad.users # {}
    /\ \E j \in 1 .. Len(pos_pred) : pos_pred[j] # neg_pred[j]

\* C11: the two embedding tables change only in an optimizer step (Resample
\* with its WARP score lookups, Shuffle, Batch, the forward pass and the loss,
\* Evaluate and Report leave them as they are), and no step of training or
\* evaluation changes the interaction matrix.
C11_TablesChangeOnlyInStep ==
    [][/\ (user_emb' # user_emb \/ item_emb' # item_emb) =>
              (pc = "backward" /\ loss = "finite" /\ steps' = steps + 1)
       /\ train' = train]_vars

\* a WARP resample pass of a later epoch that has scored and rejected a
\* candidate, after optimizer steps and an evaluation
C11_Witness ==
    /\ variant = "warp"
    /\ epoch >= 1
    /\ pc = "sample_neg"
    /\ n_sampled >= 1
    /\ grad.users # {}

InRange(t) == /\ \A u \in Users, d \in Dims : t.user[u][d] \in -init_r .. init_r
              /\ \A i \in Items, d \in Dims : t.item[i][d] \in -init_r .. init_r

\* C12: a construction succeeds, whether or not a model exists already; the
\* tables of the model it builds have every entry in [-r, r]; the tables of
\* the models built before are left as they were.
C12_ConstructInitializesSelf ==
    [][pc = "construct" =>
           /\ pc' = "construct"
           /\ net' = Len(instances) + 1
           /\ Len(instances') = Len(instances) + 1
           /\ InRange(instances'[net'])
           /\ \A j \in 1 .. Len(instances) : instances'[j] = instances[j]]_vars

\* the ranking AUC of one user: the share of (positive item, other item)
\* pairs in which the positive item has the higher score, ties for a half
auc_of_user(u) ==
    LET score(i) == predict_score(<<u>>, <<i>>)[1]
        pairs == train[u] \X (Items \ train[u])
    IN <<2 * Cardinality({q \in pairs : score(q[1]) > score(q[2])})
             + Cardinality({q \in pairs : score(q[1]) = score(q[2])}),
         2 * Cardinality(pairs)>>

\* the AUCs of the users below n that have a positive, in the order of the rows
RECURSIVE terms_below(_)
terms_below(n) ==
    IF n = 0 THEN <<>>
    ELSE terms_below(n - 1) \o (IF train[n - 1] # {} THEN <<auc_of_user(n - 1)>> ELSE <<>>)

FracEq(a, b) == a[1] * b[2] = b[1] * a[2]

\* C13: full_auc completes, and the terms it averages are one AUC for every
\* user with at least one positive, computed from that user's scores for all
\* items, and none for a user without positives.
C13_AucOverUsersWithPositives ==
    /\ pc # "raised"
    /\ pc = "full_auc" => scores = terms_below(user_id)
    /\ \A c \in 1 .. Len(aucs) :
           /\ Len(aucs[c].terms) = Cardinality({u \in Users : train[u] # {}})
           /\ aucs[c].terms # <<>> =>
                  FracEq(aucs[c].value,
                         <<sum_frac(aucs[c].terms)[1],
                           sum_frac(aucs[c].terms)[2] * Len(aucs[c].terms)>>)

\* C14: when no row of the matrix has a positive, full_auc returns NaN, not
\* a number.
C14_NoPositivesGivesNaN ==
    (\A u \in Users : train[u] = {}) =>
        \A c \in 1 .. Len(aucs) : aucs[c].value = NaN /\ aucs[c].value[2] = 0

\* full_auc has returned for a matrix without positives
C14_Witness ==
    /\ \A u \in Users : train[u] = {}
    /\ Len(aucs) >= 1
    /\ pc = "evaluated"

\* C15: two calls of full_auc on the same model and matrix with no optimizer
\* step between them return the same value.
C15_EvaluationIdempotent ==
    \A a, b \in 1 .. Len(aucs) :
        aucs[a].steps = aucs[b].steps => aucs[a].value = aucs[b].value

\* two calls without a step in between have returned a number
C15_Witness ==
    /\ Len(aucs) = 2
    /\ aucs[1].steps = aucs[2].steps
    /\ aucs[2].value # NaN
    /\ aucs[2].value[1] # 0

\* a >= b for two finite fractions
FracGe(a, b) == a[2] > 0 /\ b[2] > 0 /\ a[1] * b[2] >= b[1] * a[2]

\* C16: over the attempt counts 1 .. N-1 the WARP weight is a number, is at
\* least 0 and does not increase with the attempt count.
C16_WarpWeightNonIncreasing ==
    pc = "weight_done" =>
        \A a, b \in 1 .. Len(call_args.nsamp) :
            (call_args.nsamp[a] <= call_args.nsamp[b]
                  /\ call_args.nsamp[b] <= crit.n_items - 1) =>
                /\ FracGe(call_ret.weights[a], call_ret.weights[b])
                /\ FracGe(call_ret.weights[b], <<0, 1>>)

\* the weights of the attempt counts 1 and N-1, the first the larger
C16_Witness ==
    /\ pc = "weight_done"
    /\ call_args.nsamp = <<1, crit.n_items - 1>>
    /\ FracGe(call_ret.weights[1], call_ret.weights[2])
    /\ ~FracGe(call_ret.weights[2], call_ret.weights[1])

\* the base loss of one triplet as the loss's name defines it
base_loss(kind, pos, neg) ==
    CASE kind = "sigmoid" -> <<100 - sigmoid_centi[pos - neg + 3], 100>>
      [] kind = "hinge" -> <<(IF 1 + neg - pos > 0 THEN 100 * (1 + neg - pos) ELSE 0), 100>>

\* C17: with warp_weighting on, the loss of a triplet is w(nsamp) times the
\* base loss the object was built with (not a number where w is -inf); with
\* warp_weighting off it is the base loss, whatever nsamp is; the value
\* forward returns is the mean of the per-triplet losses.
C17_WarpWeightTimesBaseLoss ==
    pc = "criterion_done" =>
        /\ \A j \in 1 .. Len(call_args.pos) :
               LET b == base_loss(crit.loss, call_args.pos[j], call_args.neg[j])
                   q == (crit.n_items - 1) \div call_args.nsamp[j]
                   l == call_ret.premean[j]
               IN IF ~crit.warp_weighting THEN l = b
                  ELSE IF q = 0 THEN l[2] = 0
                  ELSE l[2] > 0 /\ l[1] * ln_centi[crit.n_items] * b[2]
                                       = ln_centi[q] * b[1] * l[2]
        /\ (\A j \in 1 .. Len(call_args.pos) : call_ret.premean[j][2] > 0) =>
               /\ call_ret.mean[2] > 0
               /\ \A j \in 1 .. Len(call_args.pos) :
                      call_ret.premean[j][2] = call_ret.premean[1][2]
               /\ call_ret.mean[1]
                      = SumSeq([j \in 1 .. Len(call_args.pos) |-> call_ret.premean[j][1]])
               /\ call_ret.mean[2] = call_ret.premean[1][2] * Len(call_args.pos)

\* a weighted hinge loss of two triplets with different weights, both losses
\* above zero
C17_Witness ==
    /\ pc = "criterion_done"
    /\ crit.warp_weighting /\ crit.loss = "hinge"
    /\ Len(call_args.pos) = 2
    /\ call_args.nsamp[1] # call_args.nsamp[2]
    /\ \A j \in 1 .. 2 : call_ret.premean[j][2] > 0 /\ call_ret.premean[j][1] > 0
    /\ call_ret.premean[1] # call_ret.premean[2]

\* C18: the hinge loss is never below 0, and it is 0 exactly when the
\* positive score exceeds the negative score by the margin 1 or more.
C18_HingeNonNegative ==
    (pc = "criterion_done" /\ crit.loss = "hinge" /\ ~crit.warp_weighting) =>
        \A j \in 1 .. Len(call_args.pos) :
            /\ call_ret.premean[j][2] > 0
            /\ call_ret.premean[j][1] >= 0
            /\ call_ret.premean[j][1] = 0 <=> call_args.pos[j] - call_args.neg[j] >= 1

\* a hinge loss clamped to 0 and one above 0 in the same batch
C18_Witness ==
    /\ pc = "criterion_done" /\ crit.loss = "hinge" /\ ~crit.warp_weighting
    /\ Len(call_args.pos) = 2
    /\ call_args.pos[1] - call_args.neg[1] > 1
    /\ call_ret.premean[1][1] = 0
    /\ call_ret.premean[2][1] > 0

\* C19: predict_score(u, i) is the sum over the coordinates d of
\* U[u][d] * I[i][d], and after every entry of U[u] is doubled the score of u
\* with every item is twice what it was, the scores of the other users
\* unchanged.
C19_ScoreBilinear ==
    /\ pc = "scored" =>
           \A j \in 1 .. Len(call_args.uid) :
               call_ret[1][j] =
                   SumSeq([d \in 1 .. Len(user_emb[call_args.uid[j]]) |->
                              user_emb[call_args.uid[j]][d] * item_emb[call_args.iid[j]][d]])
    /\ pc = "rescored" =>
           \A j \in 1 .. Len(call_args.uid) :
               call_ret[2][j] = IF call_args.uid[j] = call_args.user
                                THEN 2 * call_ret[1][j] ELSE call_ret[1][j]

\* one user against both items, two latent coordinates, scores that are not
\* zero, before and after the doubling
C19_Witness ==
    /\ pc = "rescored"
    /\ Len(user_emb[0]) = 2
    /\ call_args.uid = <<call_args.user, call_args.user>>
    /\ call_args.iid = pid_arr
    /\ call_ret[1][1] # 0 /\ call_ret[1][2] # 0
    /\ call_ret[1][1] # call_ret[1][2]

\* C20: while Evaluate, Report or a Resample pass runs no forward or backward
\* pass or optimizer step is in flight; Evaluate starts when every batch of
\* the epoch has had its step; and the positive scores a WARP Resample pass
\* works with are those of the tables as the last step left them.
C20_NoReadOverlapsStep ==
    /\ pc \in {"evaluate", "report", "resample", "sample_neg", "unpack",
               "shuffle", "batch"} =>
           /\ loss = "none"
           /\ uid_batch = <<>> /\ pos_pred = <<>> /\ neg_pred = <<>>
    /\ pc = "evaluate" =>
           /\ steps = CeilDiv(Len(nnz_users), batch_size)
           /\ uid_gen = <<>>
    /\ (pc = "sample_neg" /\ variant = "warp") =>
           pos_scores = predict_score(nnz_users, nnz_items)

\* the WARP Resample pass of the second epoch at its second pair, the steps
\* of the first epoch applied
C20_Witness ==
    /\ variant = "warp"
    /\ epoch = 1
    /\ pc = "sample_neg"
    /\ k = 2
    /\ grad.items # {}

(***************************************************************************)
(* C21: in the end-to-end WARP scenario the train AUC strictly increases   *)
(* from each epoch to the next over the first five epochs, the train AUC   *)
(* printed by the tenth epoch is above 0.90, and in every one of the ten   *)
(* epochs the test AUC is within 0.10 of the train AUC.                    *)
(***************************************************************************)
C21_EndToEndScenario ==
    LET n == Min(Len(aucs), 10)
    IN /\ \A e \in 1 .. Min(n, 5) - 1 : aucs[e].train < aucs[e + 1].train
       /\ n = 10 => aucs[10].train > 900000
       /\ \A e \in 1 .. n :
              /\ aucs[e].train - aucs[e].test <= 100000
              /\ aucs[e].test - aucs[e].train <= 100000

(***************************************************************************)
(* C22: when a batch's backward pass starts the gradient buffers are zero, *)
(* so the optimizer step of the batch applies the gradient of that batch's *)
(* mean loss only and nothing of an earlier batch or an earlier epoch.     *)
(***************************************************************************)
C22_GradZeroAtBackward ==
    pc = "backward" => grad = [users |-> {}, items |-> {}]

(***************************************************************************)
(* C23: in every epoch, the first or a later one, the generators are built *)
(* from a shuffle_ind that is a permutation of 0 .. nnz-1; the four        *)
(* generators hold as many batches of the same lengths, position j of the  *)
(* concatenated batches holds the user, the positive, the negative and the *)
(* attempt count of the sampled triplet shuffle_ind[j], so every triplet   *)
(* of the epoch is in exactly one batch; and the for loop takes the next   *)
(* batch of every generator together.                                      *)
(***************************************************************************)
C23_ShuffledInLockstep ==
    [][/\ (pc = "batch" /\ pc' = "loop") =>
             LET n == Len(nnz_users)
                 U == Concat(uid_gen')
                 P == Concat(pid_gen')
                 N == Concat(nid_gen')
                 S == Concat(n_samp_gen')
             IN /\ Len(shuffle_ind) = n
                /\ Range(shuffle_ind) = 0 .. n - 1
                /\ Len(nid_preload) = n /\ Len(n_sampled_preload) = n
                /\ \A g \in {pid_gen', nid_gen', n_samp_gen'} :
                       /\ Len(g) = Len(uid_gen')
                       /\ \A c \in 1 .. Len(g) : Len(g[c]) = Len(uid_gen'[c])
                /\ Len(U) = n
                /\ \A j \in 1 .. n :
                       LET t == shuffle_ind[j] + 1
                       IN <<U[j], P[j], N[j], S[j]>> =
                          <<nnz_users[t], nnz_items[t], nid_preload[t],
                            n_sampled_preload[t]>>
       /\ (pc = "loop" /\ pc' = "backward") =>
             /\ uid_batch' = Head(uid_gen)
             /\ pid_batch' = Head(pid_gen)
             /\ nid_batch' = Head(nid_gen)
             /\ variant = "warp" => nsamp_batch' = Head(n_samp_gen)
             /\ Len(Tail(uid_gen)) = Len(uid_gen')
             /\ \A g \in {pid_gen', nid_gen'} : Len(g) = Len(uid_gen')
             /\ variant = "warp" => Len(n_samp_gen') = Len(uid_gen')]_vars

\* a second epoch's generators, built from a shuffle that moved both triplets
C23_Witness ==
    /\ epoch = 1
    /\ pc = "loop"
    /\ shuffle_ind = <<1, 0>>
    /\ Len(uid_gen) = 2
    /\ Concat(nid_gen) # Concat(pid_gen)

(***************************************************************************)
(* C24: in the WARP notebook, from before the first draw of a resample     *)
(* pass to its last, pos_scores holds one score per nonzero pair, and each *)
(* is the score of its pair under the tables as they are when a candidate  *)
(* is tested: no step of the pass writes to the model.                     *)
(***************************************************************************)
C24_PosScoresAreLive ==
    (variant = "warp" /\ pc = "sample_neg") =>
        /\ Len(pos_scores) = Len(nnz_users)
        /\ \A j \in 1 .. Len(nnz_users) :
               pos_scores[j] = predict_score(<<nnz_users[j]>>, <<nnz_items[j]>>)[1]

\* a candidate has been tested and rejected in the second epoch's pass, after
\* the optimizer has moved the tables
C24_Witness ==
    /\ variant = "warp"
    /\ pc = "sample_neg"
    /\ epoch = 1
    /\ grad.users # {}
    /\ n_sampled = 1
    /\ neg_item_ind \notin get_row_nz(train, nnz_users[k])

(***************************************************************************)
(* C25: in the WARP notebook every negative sample_neg returned through    *)
(* its break scores, under the tables of the resample pass, strictly above *)
(* the positive's score minus 1, and the hinge loss of the triplet under   *)
(* those same tables is strictly positive.                                 *)
(***************************************************************************)
C25_AcceptedIsViolator ==
    variant = "warp" =>
        \A j \in 1 .. Len(trace) :
            trace[j].via_break =>
                LET pos == predict_score(<<trace[j].user>>, <<trace[j].pos>>)[1]
                    neg == predict_score(<<trace[j].user>>, <<trace[j].nid>>)[1]
                IN /\ neg > pos - 1
                   /\ forward_hinge(pos, neg)[1] > 0

\* a negative accepted in the second epoch that does not outscore the
\* positive: it violates the margin only
C25_Witness ==
    /\ variant = "warp"
    /\ epoch = 1
    /\ \E j \in 1 .. Len(trace) :
           /\ trace[j].via_break
           /\ predict_score(<<trace[j].user>>, <<trace[j].nid>>)[1]
                  = predict_score(<<trace[j].user>>, <<trace[j].pos>>)[1]

(***************************************************************************)
(* C26: in the WARP notebook's configuration (1683 items, max_samples =    *)
(* 100) a triplet whose sampling was exhausted, nsamp = max_samples, gets  *)
(* a WARP weight of at most 0.1, that is floor((N-1)/max_samples) <= 2.    *)
(***************************************************************************)
C26_ExhaustedWeightNearZero ==
    (/\ pc = "weight_done"
     /\ crit.n_items = n_items_movielens
     /\ call_args.nsamp = <<max_samples_default>>) =>
        /\ FracGe(<<1, 10>>, call_ret.weights[1])
        /\ floor_ratio(crit.n_items, call_args.nsamp[1]) <= 2

=============================================================================
